---- MODULE Spec2Model ----
(***************************************************************************)
(* Model of the NKO query layer: the POST /query cycle of                  *)
(* mcp_server/server.py (extraction, fallback cascade, composition,        *)
(* QueryResponse) and the tool handlers of mcp_server/mcp.py.              *)
(*                                                                         *)
(* Python values are records [t |-> tag, v |-> sequence of texts]; a text  *)
(* is a sequence of strings (characters, or larger fixed pieces).          *)
(*   None  : v = <<>>            str  : v = <<text>>                       *)
(*   list  : v = the elements    int  : v = <<digits>>                     *)
(*   dict  : v = <<>> (empty)    bool : v = <<literal>>                    *)
(***************************************************************************)
EXTENDS Integers, Sequences, FiniteSets, Bags, TLC

\* ------------------------------------------------------------- bounds ---
MaxRecords == 6

\* POST /query cycles in flight at once in one process
NumCycles == 2

\* news rows the backend model creates
MaxNews == 2

\* ------------------------------------------------------ python values ---
PyNone == [t |-> "None", v |-> <<>>]
PyStr(s) == [t |-> "str", v |-> <<s>>]
PyList(xs) == [t |-> "list", v |-> xs]
PyInt(ds) == [t |-> "int", v |-> <<ds>>]
PyBool(lit) == [t |-> "bool", v |-> <<lit>>]
PyDict == [t |-> "dict", v |-> <<>>]

\* bool(x): the truth value python gives a value in `if x:` / `not x`
Truthy(x) ==
    CASE x.t = "None" -> FALSE
      [] x.t = "str"  -> x.v[1] # <<>>
      [] x.t = "list" -> x.v # <<>>
      [] x.t = "dict" -> x.v # <<>>
      [] x.t = "int"  -> x.v[1] # <<"0">>
      [] x.t = "bool" -> x.v[1] = <<"t", "r", "u", "e">>
      [] OTHER -> FALSE

\* ------------------------------------------------------- str methods ---
IsSpace(c) == c \in {" ", "\n", "\t"}

RECURSIVE LStrip(_)
LStrip(s) == IF s # <<>> /\ IsSpace(Head(s)) THEN LStrip(Tail(s)) ELSE s

RECURSIVE RStrip(_)
RStrip(s) ==
    IF s # <<>> /\ IsSpace(s[Len(s)]) THEN RStrip(SubSeq(s, 1, Len(s) - 1)) ELSE s

\* str.strip()
Strip(s) == RStrip(LStrip(s))

LowerChar(c) ==
    CASE c = "N" -> "n"
      [] c = "U" -> "u"
      [] c = "L" -> "l"
      [] c = "K" -> "k"
      [] c = "M" -> "m"
      [] c = "T" -> "t"
      [] c = "F" -> "f"
      [] OTHER -> c

\* str.lower()
Lower(s) == [i \in 1..Len(s) |-> LowerChar(s[i])]

\* str.split(sep) for a one-character separator: "".split(",") = [""]
RECURSIVE SplitFrom(_, _, _)
SplitFrom(s, sep, cur) ==
    IF s = <<>> THEN <<cur>>
    ELSE IF Head(s) = sep THEN <<cur>> \o SplitFrom(Tail(s), sep, <<>>)
    ELSE SplitFrom(Tail(s), sep, Append(cur, Head(s)))

Split(s, sep) == SplitFrom(s, sep, <<>>)

\* [f(x) for x in xs if p(x)] specialised to strip / non-empty
RECURSIVE StripNonEmpty(_)
StripNonEmpty(xs) ==
    IF xs = <<>> THEN <<>>
    ELSE IF Strip(Head(xs)) # <<>>
         THEN <<Strip(Head(xs))>> \o StripNonEmpty(Tail(xs))
         ELSE StripNonEmpty(Tail(xs))

\* ---------------------------------------------------------- json.loads ---
Digits == {"0", "1", "2", "3", "4", "5", "6", "7", "8", "9"}

IsJsonNumber(s) ==
    /\ s # <<>>
    /\ \A i \in 1..Len(s) : s[i] \in Digits
    /\ (Len(s) > 1 => s[1] # "0")

\* a string literal without escapes: "...."
IsJsonString(s) ==
    /\ Len(s) >= 2
    /\ s[1] = "\"" /\ s[Len(s)] = "\""
    /\ \A i \in 2..(Len(s) - 1) : s[i] \notin {"\"", "\\"}

Unquote(s) == SubSeq(s, 2, Len(s) - 1)

\* json.loads on the texts of this model: null, true, false, numbers,
\* string literals, {} and arrays of string literals; anything else is a
\* JSONDecodeError.  (Array elements contain no commas.)
JsonLoads(text) ==
    LET s == Strip(text)
        inner == Strip(SubSeq(s, 2, Len(s) - 1))
        elems == [i \in 1..Len(Split(inner, ",")) |-> Strip(Split(inner, ",")[i])]
    IN  CASE s = <<"n", "u", "l", "l">> -> [ok |-> TRUE, val |-> PyNone]
          [] s = <<"t", "r", "u", "e">> -> [ok |-> TRUE, val |-> PyBool(s)]
          [] s = <<"f", "a", "l", "s", "e">> -> [ok |-> TRUE, val |-> PyBool(s)]
          [] s = <<"{", "}">> -> [ok |-> TRUE, val |-> PyDict]
          [] IsJsonNumber(s) -> [ok |-> TRUE, val |-> PyInt(s)]
          [] IsJsonString(s) -> [ok |-> TRUE, val |-> PyStr(Unquote(s))]
          [] Len(s) >= 2 /\ s[1] = "[" /\ s[Len(s)] = "]" ->
                IF inner = <<>> THEN [ok |-> TRUE, val |-> PyList(<<>>)]
                ELSE IF \A i \in 1..Len(elems) : IsJsonString(elems[i])
                     THEN [ok |-> TRUE,
                           val |-> PyList([i \in 1..Len(elems) |-> Unquote(elems[i])])]
                     ELSE [ok |-> FALSE, val |-> PyNone]
          [] OTHER -> [ok |-> FALSE, val |-> PyNone]

\* ==================================================== external inputs ===
\* Query texts and auth tokens of POST /query (QueryRequest)
Queries == {<<"q">>}
JwtTokens == {PyNone, PyStr(<<>>), PyStr(<<"jwt">>)}

\* Values of the OPENROUTER_API_KEY environment variable at process start
ApiKeys == {PyNone, PyStr(<<>>), PyStr(<<"sk">>)}

\* Outcome of one client.chat.completions.create call: the call raises
\* (kind "error", str(e) = err), or returns a message whose content is a
\* text (kind "text") or is absent (kind "no_content", content is None).
CompletionErrors == {"APIConnectionError"}

CompletionOutcome(kind, text, err) == [kind |-> kind, text |-> text, err |-> err]

CompletionFailures ==
    {CompletionOutcome("error", <<>>, e) : e \in CompletionErrors}
        \cup {CompletionOutcome("no_content", <<>>, "AttributeError")}

CityTexts ==
    { <<"n", "u", "l", "l">>,
      <<" ", "N", "U", "L", "L", "\n">>,
      <<>>,
      <<"K">>,
      <<" ", "M", "k", " ">> }

CategoriesTexts ==
    { <<"[", "]">>,
      <<"[", "\"", "a", "\"", "]">>,
      <<"[", "\"", "a", "\"", ",", " ", "\"", "b", "\"", "]", "\n">>,
      <<"n", "u", "l", "l">>,
      <<"\"", "a", "\"">>,
      <<"7">>,
      <<"{", "}">>,
      <<"a", ",", " ", "b", " ", "c">>,
      <<"a", ",", ",", " ">>,
      <<>> }

ComposeTexts == { <<"answer">> }

CityOutcomes ==
    {CompletionOutcome("text", t, "") : t \in CityTexts} \cup CompletionFailures
CategoriesOutcomes ==
    {CompletionOutcome("text", t, "") : t \in CategoriesTexts} \cup CompletionFailures
ComposeOutcomes ==
    {CompletionOutcome("text", t, "") : t \in ComposeTexts} \cup CompletionFailures

\* One organization record of the backend listing
NkoRecord(i) == <<"nko", ToString(i)>>
Ascending(n) == [i \in 1..n |-> NkoRecord(i)]
Descending(n) == [i \in 1..n |-> NkoRecord(n + 1 - i)]

\* Bodies GET /nko answers with status 200: a JSON array of records
RecordSets ==
    {PyList(Ascending(n)) : n \in 0..MaxRecords}
        \cup {PyList(Descending(MaxRecords))}

\* Outcome of one backend request: "ok" (2xx and a decodable body),
\* "connect_error" (the request raised), "status_error" (raise_for_status
\* raised httpx.HTTPStatusError), "decode_error" (response.json() raised).
BackendOutcome(kind, status, body, text) ==
    [kind |-> kind, status |-> status, body |-> body, text |-> text]

ErrorStatuses == {404, 500}

BackendFailures ==
    {BackendOutcome("connect_error", 0, PyNone, "ConnectError"),
     BackendOutcome("decode_error", 200, PyNone, "JSONDecodeError")}
        \cup {BackendOutcome("status_error", st, PyNone, "detail") : st \in ErrorStatuses}

NkoListOutcomes ==
    {BackendOutcome("ok", 200, b, "") : b \in RecordSets} \cup BackendFailures

\* ============================================================= state ===
VARIABLES
    OPENROUTER_API_KEY, \* server.py:28, fixed at process start
    pc,                 \* position of the request being served
    query,              \* QueryRequest.query
    jwt_token,          \* QueryRequest.jwt_token
    city,               \* process_user_query local
    categories,         \* process_user_query local
    nko_list,           \* process_user_query local
    context,            \* process_user_query local
    result,             \* value returned by process_user_query
    http,               \* what the transport receives from query_nko
    completions,        \* history: completion calls made, in order
    calls,              \* history: backend GET /nko calls made, in order
    tool,               \* handle_call_tool: the invocation (name, arguments)
    toolResult,         \* handle_call_tool: what the invocation produced
    toolCalls,          \* history: backend requests made by the tool
    cycles,             \* concurrent cycles: the frame of each process_user_query
    blocked,            \* concurrent cycles: who holds the event loop in a
                        \* blocking call (0: the loop is free)
    news,               \* backend: ids of the NewsInDB rows
    favorite_news,      \* backend: the FavoriteNewsInDB rows, a bag of
                        \* <<user_id, news_id>>
    last                \* backend: the last news.py call and how it ended

vars == <<OPENROUTER_API_KEY, pc, query, jwt_token, city, categories,
          nko_list, context, result, http, completions, calls,
          tool, toolResult, toolCalls, cycles, blocked,
          news, favorite_news, last>>

concVars == <<cycles, blocked>>

backendVars == <<news, favorite_news, last>>

queryVars == <<query, jwt_token, city, categories, nko_list, context, result,
               http, completions, calls>>

toolVars == <<tool, toolResult, toolCalls>>

NoContext ==
    [built |-> FALSE, user_query |-> <<>>, extracted_city |-> PyNone,
     extracted_categories |-> PyNone, nko_count |-> 0, nko_data |-> <<>>]

NoResult == [set |-> FALSE, response |-> PyNone, city |-> PyNone, categories |-> PyNone]

HttpPending ==
    [kind |-> "pending", status |-> 0, response |-> PyNone, city |-> PyNone,
     categories |-> PyNone, detail |-> ""]

NoTool == [name |-> "", arguments |-> [isdict |-> TRUE, items |-> {}]]

NoContent == [kind |-> "none", text |-> <<>>, body |-> PyNone]

NoToolResult == [returned |-> FALSE, raised |-> FALSE, content |-> NoContent]

Cycles == 1..NumCycles

\* no news.py call made yet
NoCall ==
    [op |-> "none", user_id |-> 0, news_id |-> 0, raised |-> FALSE,
     before |-> EmptyBag]

\* the frame of a cycle that has not started
NewCycle ==
    [pc |-> "idle", query |-> <<>>, jwt_token |-> PyNone, city |-> PyNone,
     categories |-> PyNone, nko_list |-> PyNone, context |-> NoContext,
     result |-> NoResult, completions |-> <<>>, calls |-> <<>>]

Init ==
    /\ OPENROUTER_API_KEY \in ApiKeys
    /\ pc = "idle"
    /\ query = <<>>
    /\ jwt_token = PyNone
    /\ city = PyNone
    /\ categories = PyNone
    /\ nko_list = PyNone
    /\ context = NoContext
    /\ result = NoResult
    /\ http = HttpPending
    /\ completions = <<>>
    /\ calls = <<>>
    /\ tool = NoTool
    /\ toolResult = NoToolResult
    /\ toolCalls = <<>>
    /\ cycles = [c \in Cycles |-> NewCycle]
    /\ blocked = 0
    /\ news = {}
    /\ favorite_news = EmptyBag
    /\ last = NoCall

\* ================================================ server.py helpers ===
Returned(val) == [raised |-> FALSE, err |-> "", val |-> val]
Raised(err) == [raised |-> TRUE, err |-> err, val |-> PyNone]

get_nko_list_propagating(outcome) ==
    IF outcome.kind = "ok" THEN Returned(outcome.body) ELSE Raised(outcome.text)

\* get_nko_list(params): the body on success, [] on any exception
get_nko_list(outcome) ==
    IF outcome.kind = "ok" THEN Returned(outcome.body) ELSE Returned(PyList(<<>>))

extract_city_case_sensitive(outcome) ==
    IF outcome.kind = "text"
    THEN LET c == Strip(outcome.text)
         IN  IF c # <<"n", "u", "l", "l">> THEN Returned(PyStr(c))
             ELSE Returned(PyNone)
    ELSE Returned(PyNone)

extract_city_propagating(outcome) ==
    IF outcome.kind = "text"
    THEN LET c == Strip(outcome.text)
         IN  IF Lower(c) # <<"n", "u", "l", "l">> THEN Returned(PyStr(c))
             ELSE Returned(PyNone)
    ELSE Raised(outcome.err)

\* extract_city_from_query: content.strip(), "null" in any case -> None;
\* any exception (the call raising, content None) -> None
extract_city_from_query(outcome) ==
    IF outcome.kind = "text"
    THEN LET c == Strip(outcome.text)
         IN  IF Lower(c) # <<"n", "u", "l", "l">> THEN Returned(PyStr(c))
             ELSE Returned(PyNone)
    ELSE Returned(PyNone)

extract_categories_raw_fragments(outcome) ==
    IF outcome.kind = "text"
    THEN LET categories_str == Strip(outcome.text)
             parsed == JsonLoads(categories_str)
         IN  IF parsed.ok THEN Returned(parsed.val)
             ELSE Returned(PyList(Split(categories_str, ",")))
    ELSE Returned(PyList(<<>>))

\* extract_categories_from_query: json.loads(content.strip()); on
\* JSONDecodeError the comma-separated fragments; any other exception -> []
extract_categories_from_query(outcome) ==
    IF outcome.kind = "text"
    THEN LET categories_str == Strip(outcome.text)
             parsed == JsonLoads(categories_str)
         IN  IF parsed.ok THEN Returned(parsed.val)
             ELSE Returned(PyList(StripNonEmpty(Split(categories_str, ","))))
    ELSE Returned(PyList(<<>>))

\* A dict is the set of its <<key, value>> items
FullParams(tok, c, cats) ==
    (IF Truthy(tok) THEN {<<"jwt_token", tok>>} ELSE {})
        \cup (IF Truthy(c) THEN {<<"city", c>>} ELSE {})
        \cup (IF Truthy(cats) THEN {<<"category", cats>>} ELSE {})

CityParams(c) == {<<"city", c>>}

NoParams == {}

\* the cap of nko_list[:5]
ContextLimit == 5

FirstFiveUncapped(xs) == xs

\* nko_list[:5]
FirstFive(xs) ==
    SubSeq(xs, 1, IF Len(xs) < ContextLimit THEN Len(xs) ELSE ContextLimit)

BuildContextEmptyRaises(q, c, cats, lst) ==
    IF lst.t = "list" /\ lst.v # <<>>
    THEN [raised |-> FALSE, err |-> "",
          ctx |-> [built |-> TRUE, user_query |-> q, extracted_city |-> c,
                   extracted_categories |-> cats, nko_count |-> Len(lst.v),
                   nko_data |-> FirstFive(lst.v)]]
    ELSE [raised |-> TRUE, err |-> "IndexError", ctx |-> NoContext]

\* the context dict of process_user_query; len() and slicing raise
\* TypeError on a value that is not a sequence
BuildContext(q, c, cats, lst) ==
    IF lst.t = "list"
    THEN [raised |-> FALSE, err |-> "",
          ctx |-> [built |-> TRUE, user_query |-> q, extracted_city |-> c,
                   extracted_categories |-> cats, nko_count |-> Len(lst.v),
                   nko_data |-> FirstFive(lst.v)]]
    ELSE [raised |-> TRUE, err |-> "TypeError", ctx |-> NoContext]

\* the fixed text of server.py:202 (Cyrillic in the source), transliterated
ApologyPrefix == "Izvinite, proizoshla oshibka pri obrabotke vashego zaprosa: "

\* the dict returned by the except branch of process_user_query
Apology(err) ==
    [set |-> TRUE, response |-> PyStr(<<ApologyPrefix, err>>),
     city |-> PyNone, categories |-> PyList(<<>>)]

AnswerWithoutFilters(outcome, c, cats) ==
    [set |-> TRUE,
     response |-> IF outcome.kind = "text" THEN PyStr(outcome.text) ELSE PyNone,
     city |-> PyNone, categories |-> PyList(<<>>)]

\* the dict returned after the composition call: message.content, city, categories
Answer(outcome, c, cats) ==
    [set |-> TRUE,
     response |-> IF outcome.kind = "text" THEN PyStr(outcome.text) ELSE PyNone,
     city |-> c, categories |-> cats]

ComposeResultUncaught(outcome, c, cats) == Answer(outcome, c, cats)

\* composition step: a raising completion call lands in the except branch
ComposeResult(outcome, c, cats) ==
    IF outcome.kind = "error" THEN Apology(outcome.err) ELSE Answer(outcome, c, cats)

\* pydantic validation of QueryResponse(**result)
QueryResponseValid(r) ==
    /\ r.response.t = "str"
    /\ r.city.t \in {"None", "str"}
    /\ r.categories.t = "list"

\* what query_nko hands to the transport for a result of process_user_query
Respond(r) ==
    IF QueryResponseValid(r)
    THEN [kind |-> "response", status |-> 200, response |-> r.response,
          city |-> r.city, categories |-> r.categories, detail |-> ""]
    ELSE [kind |-> "unhandled", status |-> 500, response |-> PyNone,
          city |-> PyNone, categories |-> PyNone, detail |-> "ValidationError"]

HttpConfigError ==
    [kind |-> "http_exception", status |-> 500, response |-> PyNone,
     city |-> PyNone, categories |-> PyNone,
     detail |-> "OpenRouter API key not configured"]

Completion(purpose, outcome) == [purpose |-> purpose, outcome |-> outcome]

Call(tier, params, outcome, returned) ==
    [tier |-> tier, params |-> params, outcome |-> outcome, returned |-> returned]

AfterTier1AlwaysCity(lst, c) == IF ~Truthy(lst) THEN "tier2" ELSE "compose"

AfterTier1SkippingCity(lst, c) == IF ~Truthy(lst) THEN "tier3" ELSE "compose"

\* where the cascade goes after a candidate returned lst
AfterTier1(lst, c) ==
    IF ~Truthy(lst) /\ Truthy(c) THEN "tier2"
    ELSE IF ~Truthy(lst) THEN "tier3"
    ELSE "compose"

AfterTier2Retrying(lst) == IF ~Truthy(lst) THEN "tier2" ELSE "compose"

AfterTier2Always(lst) == "tier3"

AfterTier2(lst) == IF ~Truthy(lst) THEN "tier3" ELSE "compose"

KeyMissingIsNone(key) == key.t = "None"

\* `not OPENROUTER_API_KEY`
KeyMissing(key) == ~Truthy(key)

\* ==================================================== POST /query cycle ===
\* process_user_query leaves through its except branch
Fail(err) ==
    /\ result' = Apology(err)
    /\ http' = Respond(Apology(err))
    /\ pc' = "done"

\* query_nko up to the first completion call
QueryNko(q, tok) ==
    /\ pc = "idle"
    /\ query' = q
    /\ jwt_token' = tok
    /\ IF KeyMissing(OPENROUTER_API_KEY)
       THEN /\ http' = HttpConfigError
            /\ pc' = "done"
       ELSE /\ http' = http
            /\ pc' = "extract_city"
    /\ UNCHANGED <<OPENROUTER_API_KEY, city, categories, nko_list, context,
                   result, completions, calls, toolVars, concVars, backendVars>>

ExtractCityRetrying(outcome) ==
    /\ pc = "extract_city"
    /\ completions' = Append(completions, Completion("city", outcome))
    /\ city' = extract_city_from_query(outcome).val
    /\ pc' = IF outcome.kind = "error" THEN "extract_city" ELSE "extract_categories"
    /\ UNCHANGED <<OPENROUTER_API_KEY, query, jwt_token, categories, nko_list,
                   context, calls, result, http, toolVars, concVars, backendVars>>

ExtractCity(outcome) ==
    /\ pc = "extract_city"
    /\ completions' = Append(completions, Completion("city", outcome))
    /\ LET r == extract_city_from_query(outcome)
       IN  IF r.raised
           THEN /\ Fail(r.err)
                /\ city' = city
           ELSE /\ city' = r.val
                /\ pc' = "extract_categories"
                /\ UNCHANGED <<result, http>>
    /\ UNCHANGED <<OPENROUTER_API_KEY, query, jwt_token, categories, nko_list,
                   context, calls, toolVars, concVars, backendVars>>

ExtractCategories(outcome) ==
    /\ pc = "extract_categories"
    /\ completions' = Append(completions, Completion("categories", outcome))
    /\ LET r == extract_categories_from_query(outcome)
       IN  IF r.raised
           THEN /\ Fail(r.err)
                /\ categories' = categories
           ELSE /\ categories' = r.val
                /\ pc' = "tier1"
                /\ UNCHANGED <<result, http>>
    /\ UNCHANGED <<OPENROUTER_API_KEY, query, jwt_token, city, nko_list,
                   context, calls, toolVars, concVars, backendVars>>

\* where the cascade goes after candidate `tier` returned lst
AfterTier(tier, lst) ==
    CASE tier = 1 -> AfterTier1(lst, city)
      [] tier = 2 -> AfterTier2(lst)
      [] OTHER -> "compose"

\* one candidate of the cascade: the call, its result, the next position
Candidate(tier, params, outcome) ==
    LET r == get_nko_list(outcome)
    IN  /\ calls' = Append(calls, Call(tier, params, outcome, r))
        /\ IF r.raised
           THEN /\ Fail(r.err)
                /\ nko_list' = nko_list
           ELSE /\ nko_list' = r.val
                /\ pc' = AfterTier(tier, r.val)
                /\ UNCHANGED <<result, http>>
        /\ UNCHANGED <<OPENROUTER_API_KEY, query, jwt_token, city, categories,
                       context, completions, toolVars, concVars, backendVars>>

Tier1(outcome) ==
    /\ pc = "tier1"
    /\ Candidate(1, FullParams(jwt_token, city, categories), outcome)

Tier2(outcome) ==
    /\ pc = "tier2"
    /\ Candidate(2, CityParams(city), outcome)

Tier3(outcome) ==
    /\ pc = "tier3"
    /\ Candidate(3, NoParams, outcome)

\* context, the composition call, the returned dict and QueryResponse(**result)
Compose(outcome) ==
    /\ pc = "compose"
    /\ LET b == BuildContext(query, city, categories, nko_list)
       IN  IF b.raised
           THEN /\ Fail(b.err)
                /\ UNCHANGED <<context, completions>>
           ELSE /\ context' = b.ctx
                /\ completions' = Append(completions, Completion("compose", outcome))
                /\ result' = ComposeResult(outcome, city, categories)
                /\ http' = Respond(ComposeResult(outcome, city, categories))
                /\ pc' = "done"
    /\ UNCHANGED <<OPENROUTER_API_KEY, query, jwt_token, city, categories,
                   nko_list, calls, toolVars, concVars, backendVars>>

\* ====================================================== mcp.py tools ===
ToolNames == {"get_nko_list", "get_nko_by_id", "get_cities", "get_news"}

Dict(items) == [isdict |-> TRUE, items |-> items]

\* arguments objects handed to handle_call_tool (the last one is no dict)
ToolArguments ==
    { Dict({}),
      Dict({<<"nko_id", PyInt(<<"0">>)>>}),
      Dict({<<"nko_id", PyInt(<<"1">>)>>}),
      Dict({<<"nko_id", PyInt(<<"2", "3">>)>>}),
      Dict({<<"nko_id", PyNone>>}),
      Dict({<<"city", PyStr(<<"K">>)>>, <<"category", PyList(<<<<"a">>>>)>>}),
      Dict({<<"category", PyInt(<<"7">>)>>}),
      Dict({<<"favorite", PyBool(<<"f", "a", "l", "s", "e">>)>>,
            <<"jwt_token", PyStr(<<"jwt">>)>>}),
      Dict({<<"regex", PyStr(<<"x">>)>>}),
      [isdict |-> FALSE, items |-> {}] }

HasKey(d, k) == \E p \in d.items : p[1] = k

\* dict.get(k, default)
Get(d, k, default) ==
    IF HasKey(d, k) THEN (CHOOSE p \in d.items : p[1] = k)[2] ELSE default

\* bodies the backend answers a tool's request with on success
ToolBodies == {PyList(<<>>), PyList(Ascending(2)), PyDict}

ToolOutcomes ==
    {BackendOutcome("ok", 200, b, "") : b \in ToolBodies} \cup BackendFailures

\* TextContent(type="text", text=...): a fixed-format text, or json.dumps(body)
Text(t) == [kind |-> "text", text |-> t, body |-> PyNone]
JsonText(body) == [kind |-> "json", text |-> <<>>, body |-> body]

\* what a tool function hands back: the content or the exception it raises,
\* and the backend requests it sent
ToolReturn(content, sent) ==
    [raised |-> FALSE, err |-> "", content |-> content, sent |-> sent]
ToolRaise(err, sent) ==
    [raised |-> TRUE, err |-> err, content |-> NoContent, sent |-> sent]

Request(path, params, outcome) == [path |-> path, params |-> params, outcome |-> outcome]

HttpErrorText(outcome) == <<"HTTP error ", ToString(outcome.status), ": ", outcome.text>>

\* str(x) of a python value, as a text
StrOf(x) ==
    CASE x.t = "bool" -> (IF Truthy(x) THEN <<"T", "r", "u", "e">>
                          ELSE <<"F", "a", "l", "s", "e">>)
      [] x.t = "None" -> <<"N", "o", "n", "e">>
      [] x.t \in {"int", "str"} -> x.v[1]
      [] OTHER -> <<"repr">>

\* `for category in categories` raises TypeError on these
Iterable(x) == x.t \in {"list", "str", "dict"}

ToolExceptGeneric(outcome, prefix, sent) ==
    ToolReturn(Text(<<prefix, outcome.text>>), sent)

\* the except clauses shared by the three tools: HTTPStatusError first,
\* then every other exception, with the tool's own prefix
ToolExcept(outcome, prefix, sent) ==
    IF outcome.kind = "status_error"
    THEN ToolReturn(Text(HttpErrorText(outcome)), sent)
    ELSE ToolReturn(Text(<<prefix, outcome.text>>), sent)

ListParams(args) ==
    LET jwt == Get(args, "jwt_token", PyStr(<<>>))
        c == Get(args, "city", PyNone)
        favorite == Get(args, "favorite", PyNone)
        cats == Get(args, "category", PyList(<<>>))
        regex == Get(args, "regex", PyNone)
    IN  (IF Truthy(jwt) THEN {<<"jwt_token", jwt>>} ELSE {})
            \cup (IF Truthy(c) THEN {<<"city", c>>} ELSE {})
            \cup (IF favorite.t # "None"
                  THEN {<<"favorite", PyStr(Lower(StrOf(favorite)))>>} ELSE {})
            \cup (IF Truthy(regex) THEN {<<"regex", regex>>} ELSE {})
            \cup (IF Truthy(cats) THEN {<<"category", cats>>} ELSE {})

\* mcp.py get_nko_list(args)
tool_get_nko_list(args, outcome) ==
    IF ~args.isdict THEN ToolRaise("AttributeError", <<>>)
    ELSE LET cats == Get(args, "category", PyList(<<>>))
             sent == <<Request(<<"/nko">>, ListParams(args), outcome)>>
         IN  IF Truthy(cats) /\ ~Iterable(cats)
             THEN ToolReturn(Text(<<"Error fetching NKO list: ", "TypeError">>), <<>>)
             ELSE IF outcome.kind = "ok"
                  THEN ToolReturn(JsonText(outcome.body), sent)
                  ELSE ToolExcept(outcome, "Error fetching NKO list: ", sent)

tool_get_nko_by_id_no404(args, outcome) ==
    IF ~args.isdict THEN ToolRaise("AttributeError", <<>>)
    ELSE LET nko_id == Get(args, "nko_id", PyNone)
             sent == <<Request(<<"/nko/">> \o StrOf(nko_id), {}, outcome)>>
         IN  IF ~Truthy(nko_id)
             THEN ToolReturn(Text(<<"Error: nko_id is required">>), <<>>)
             ELSE IF outcome.kind = "ok"
                  THEN ToolReturn(JsonText(outcome.body), sent)
                  ELSE ToolExcept(outcome, "Error fetching NKO: ", sent)

\* mcp.py get_nko_by_id(args)
tool_get_nko_by_id(args, outcome) ==
    IF ~args.isdict THEN ToolRaise("AttributeError", <<>>)
    ELSE LET nko_id == Get(args, "nko_id", PyNone)
             sent == <<Request(<<"/nko/">> \o StrOf(nko_id), {}, outcome)>>
         IN  IF ~Truthy(nko_id)
             THEN ToolReturn(Text(<<"Error: nko_id is required">>), <<>>)
             ELSE IF outcome.kind = "ok"
                  THEN ToolReturn(JsonText(outcome.body), sent)
                  ELSE IF outcome.kind = "status_error" /\ outcome.status = 404
                       THEN ToolReturn(Text(<<"NKO with ID ">> \o StrOf(nko_id)
                                                \o <<" not found">>), sent)
                       ELSE ToolExcept(outcome, "Error fetching NKO: ", sent)

\* mcp.py get_cities(args)
tool_get_cities(args, outcome) ==
    IF ~args.isdict THEN ToolRaise("AttributeError", <<>>)
    ELSE LET regex == Get(args, "regex", PyNone)
             params == IF Truthy(regex) THEN {<<"regex", regex>>} ELSE {}
             sent == <<Request(<<"/city">>, params, outcome)>>
         IN  IF outcome.kind = "ok"
             THEN ToolReturn(JsonText(outcome.body), sent)
             ELSE ToolExcept(outcome, "Error fetching cities: ", sent)

\* handle_call_tool(name, arguments): dispatch, and the catch-all around it
handle_call_tool(name, arguments, outcome) ==
    LET r == CASE name = "get_nko_list" -> tool_get_nko_list(arguments, outcome)
               [] name = "get_nko_by_id" -> tool_get_nko_by_id(arguments, outcome)
               [] name = "get_cities" -> tool_get_cities(arguments, outcome)
               [] OTHER -> ToolReturn(Text(<<"Unknown tool: ", name>>), <<>>)
    IN  IF r.raised THEN ToolReturn(Text(<<"Error: ", r.err>>), r.sent) ELSE r

\* one tool invocation, from the call to the returned content
CallTool(name, arguments, outcome) ==
    /\ pc = "idle"
    /\ LET r == handle_call_tool(name, arguments, outcome)
       IN  /\ tool' = [name |-> name, arguments |-> arguments]
           /\ toolResult' = [returned |-> TRUE, raised |-> r.raised, content |-> r.content]
           /\ toolCalls' = r.sent
    /\ pc' = "done"
    /\ UNCHANGED <<OPENROUTER_API_KEY, queryVars, concVars, backendVars>>

Next ==
    \/ \E q \in Queries, tok \in JwtTokens : QueryNko(q, tok)
    \/ \E o \in CityOutcomes : ExtractCity(o)
    \/ \E o \in CategoriesOutcomes : ExtractCategories(o)
    \/ \E o \in NkoListOutcomes : Tier1(o)
    \/ \E o \in NkoListOutcomes : Tier2(o)
    \/ \E o \in NkoListOutcomes : Tier3(o)
    \/ \E o \in ComposeOutcomes : Compose(o)
    \/ \E n \in ToolNames, a \in ToolArguments, o \in ToolOutcomes :
            CallTool(n, a, o)

Spec == Init /\ [][Next]_vars

\* a step of the cycle in progress: the pending external call returns or fails
CycleStep ==
    \/ \E o \in CityOutcomes : ExtractCity(o)
    \/ \E o \in CategoriesOutcomes : ExtractCategories(o)
    \/ \E o \in NkoListOutcomes : Tier1(o)
    \/ \E o \in NkoListOutcomes : Tier2(o)
    \/ \E o \in NkoListOutcomes : Tier3(o)
    \/ \E o \in ComposeOutcomes : Compose(o)

\* every external call eventually returns or fails
LiveSpec == Init /\ [][Next]_vars /\ WF_vars(CycleStep)

\* ============================================================= claims ===
\* the request being served is a POST /query (not a tool invocation)
QueryCycle == pc # "idle" /\ ~toolResult.returned

CascadeOver == QueryCycle /\ pc \in {"compose", "done"} /\ calls # <<>>

Min(a, b) == IF a < b THEN a ELSE b

\* C1: when the cascade is over, the record set handed on is the tier-1
\* (city + categories) result if that is non-empty; otherwise, with a city
\* extracted, the tier-2 (city-only) result if that is non-empty; otherwise
\* the tier-3 (unfiltered) result; and no candidate call raised.
C1_CascadeResult ==
    CascadeOver =>
        /\ \A i \in 1..Len(calls) : ~calls[i].returned.raised
        /\ calls[1].tier = 1
        /\ \A p \in calls[1].params : p[1] \in {"city", "category", "jwt_token"}
        /\ (Truthy(city) <=> <<"city", city>> \in calls[1].params)
        /\ (Truthy(categories) <=> <<"category", categories>> \in calls[1].params)
        /\ IF Truthy(calls[1].returned.val)
           THEN Len(calls) = 1 /\ nko_list = calls[1].returned.val
           ELSE IF Truthy(city)
           THEN /\ Len(calls) >= 2
                /\ calls[2].tier = 2
                /\ calls[2].params = {<<"city", city>>}
                /\ IF Truthy(calls[2].returned.val)
                   THEN Len(calls) = 2 /\ nko_list = calls[2].returned.val
                   ELSE /\ Len(calls) = 3
                        /\ calls[3].tier = 3
                        /\ calls[3].params = {}
                        /\ nko_list = calls[3].returned.val
           ELSE /\ Len(calls) = 2
                /\ calls[2].tier = 3
                /\ calls[2].params = {}
                /\ nko_list = calls[2].returned.val

\* city and categories were extracted, the full filter matched nothing, the
\* city has records: the city-only listing is handed on
C1_Witness ==
    /\ CascadeOver
    /\ Truthy(city) /\ Truthy(categories)
    /\ Len(calls) = 2
    /\ calls[1].outcome.kind = "ok" /\ calls[1].outcome.body = PyList(<<>>)
    /\ calls[2].outcome.kind = "ok"
    /\ nko_list = calls[2].outcome.body
    /\ Len(nko_list.v) > 0

\* C2: a failed backend search call (connection error, error status,
\* undecodable body) makes get_nko_list return [] without raising, and the
\* cascade goes on to the next candidate (or, after the last one, to the
\* composer) instead of aborting the cycle.
C2_FailedCallIsEmpty ==
    \A i \in 1..Len(calls) :
        calls[i].outcome.kind # "ok" =>
            /\ ~calls[i].returned.raised
            /\ calls[i].returned.val = PyList(<<>>)
            /\ IF i < Len(calls)
               THEN calls[i + 1].tier =
                        (IF calls[i].tier = 1 /\ Truthy(city) THEN 2 ELSE 3)
               ELSE pc = (CASE calls[i].tier = 1 /\ Truthy(city) -> "tier2"
                            [] calls[i].tier = 1 /\ ~Truthy(city) -> "tier3"
                            [] calls[i].tier = 2 -> "tier3"
                            [] OTHER -> pc)
            /\ (calls[i].tier = 3 => pc \in {"compose", "done"})
            /\ (pc = "done" =>
                    /\ context.built
                    /\ completions[Len(completions)].purpose = "compose")

C2_Witness ==
    /\ Len(calls) = 3
    /\ \A i \in 1..3 : calls[i].outcome.kind # "ok"
    /\ {calls[i].outcome.kind : i \in 1..3}
           = {"connect_error", "status_error", "decode_error"}
    /\ pc = "done"

\* C3: with a provider key configured, every POST /query ends with the
\* transport receiving a well-formed Response (response a string, city a
\* string or none, categories a sequence), never an unhandled exception.
C3_AlwaysWellFormedResponse ==
    (QueryCycle /\ pc = "done" /\ ~KeyMissing(OPENROUTER_API_KEY)) =>
        /\ http.kind = "response"
        /\ http.response.t = "str"
        /\ http.city.t \in {"None", "str"}
        /\ http.categories.t = "list"

\* C4: a failed extraction completion yields city = None (city call) and
\* categories = [] (categories call); the cycle goes on to the cascade and
\* the composer instead of leaving through an error.
C4_ExtractionDegrades ==
    /\ (Len(completions) >= 1 /\ completions[1].outcome.kind # "text") =>
            /\ completions[1].purpose = "city"
            /\ city = PyNone
    /\ (Len(completions) >= 2 /\ completions[2].outcome.kind # "text") =>
            /\ completions[2].purpose = "categories"
            /\ categories = PyList(<<>>)
    /\ \A k \in {1, 2} :
          (Len(completions) >= k /\ completions[k].outcome.kind # "text") =>
            /\ pc \notin {"idle", "extract_city"}
            /\ (pc = "done" =>
                    /\ calls # <<>>
                    /\ context.built
                    /\ Len(completions) = 3
                    /\ completions[3].purpose = "compose")

C4_Witness ==
    /\ pc = "done"
    /\ Len(completions) = 3
    /\ completions[1].outcome.kind = "error"
    /\ completions[2].outcome.kind = "error"
    /\ city = PyNone /\ categories = PyList(<<>>)
    /\ calls # <<>>

\* C5: once extracted, categories is a sequence (possibly empty), never
\* null, whatever text the completion model returned.
C5_CategoriesIsSequence ==
    (QueryCycle /\ pc \in {"tier1", "tier2", "tier3", "compose", "done"}
                /\ Len(completions) >= 2) =>
        categories.t = "list"

\* C6: the context carries the first min(5, n) records of the winning
\* record set in their order, and nko_count is n.
C6_ContextCap ==
    context.built =>
        /\ nko_list = calls[Len(calls)].returned.val
        /\ context.nko_count = Len(nko_list.v)
        /\ Len(context.nko_data) = Min(5, Len(nko_list.v))
        /\ \A i \in 1..Len(context.nko_data) : context.nko_data[i] = nko_list.v[i]

C6_Witness ==
    /\ context.built
    /\ context.nko_count = MaxRecords
    /\ MaxRecords > 5
    /\ Len(context.nko_data) = 5
    /\ context.nko_data[1] = NkoRecord(MaxRecords)

\* C7: when the composition completion call fails, the cycle returns the
\* fixed apologetic message with the error detail as its response text.
C7_CompositionFailureApology ==
    (pc = "done" /\ Len(completions) = 3 /\ completions[3].outcome.kind = "error") =>
        /\ result.response = PyStr(<<ApologyPrefix, completions[3].outcome.err>>)
        /\ http.kind = "response"
        /\ http.status = 200
        /\ http.response = result.response

C7_Witness ==
    /\ pc = "done"
    /\ Len(completions) = 3
    /\ completions[3].purpose = "compose"
    /\ completions[3].outcome.kind = "error"
    /\ http.kind = "response"

\* C8: without a provider key every POST /query fails at once with HTTP 500
\* and makes no completion call and no backend call; process_user_query is
\* never entered.
C8_NoKeyNoCalls ==
    (QueryCycle /\ OPENROUTER_API_KEY \in {PyNone, PyStr(<<>>)}) =>
        /\ pc = "done"
        /\ http.kind = "http_exception"
        /\ http.status = 500
        /\ completions = <<>>
        /\ calls = <<>>
        /\ result = NoResult

C8_Witness ==
    /\ QueryCycle
    /\ OPENROUTER_API_KEY = PyStr(<<>>)
    /\ http.kind = "http_exception"

\* the backend request a tool invocation made ended in an HTTP status error
ToolStatusError ==
    /\ toolResult.returned
    /\ toolCalls # <<>>
    /\ toolCalls[1].outcome.kind = "status_error"

NotFoundText(id) == <<"NKO with ID ">> \o id \o <<" not found">>

\* C9: get_nko_by_id answers a backend 404 with "NKO with ID {id} not found"
\* for the requested id, and any other error status with
\* "HTTP error <status>: <body>"; the two texts never coincide.
C9_NotFoundDistinct ==
    (ToolStatusError /\ tool.name = "get_nko_by_id") =>
        LET o == toolCalls[1].outcome
            id == Get(tool.arguments, "nko_id", PyNone).v[1]
        IN  /\ toolCalls[1].path = <<"/nko/">> \o id
            /\ toolResult.content.kind = "text"
            /\ IF o.status = 404
               THEN toolResult.content.text = NotFoundText(id)
               ELSE toolResult.content.text
                        = <<"HTTP error ", ToString(o.status), ": ", o.text>>
            /\ (toolResult.content.text[1] = "HTTP error ") <=> (o.status # 404)

C9_Witness ==
    /\ ToolStatusError
    /\ tool.name = "get_nko_by_id"
    /\ toolCalls[1].outcome.status = 404
    /\ toolResult.content.text = <<"NKO with ID ", "2", "3", " not found">>

ErrorPrefixes ==
    {"Error: ", "Error fetching NKO list: ", "Error fetching NKO: ",
     "Error fetching cities: "}

KnownTools == {"get_nko_list", "get_nko_by_id", "get_cities"}

\* what C10 says of every invocation apart from the HTTP status errors
ToolNeverRaises ==
    toolResult.returned =>
        /\ ~toolResult.raised
        /\ toolResult.content.kind \in {"text", "json"}
        /\ (toolResult.content.kind = "json" =>
                /\ toolCalls # <<>>
                /\ toolCalls[1].outcome.kind = "ok"
                /\ toolResult.content.body = toolCalls[1].outcome.body)
        /\ (toolCalls # <<>> /\ toolCalls[1].outcome.kind \in {"connect_error", "decode_error"} =>
                toolResult.content.text[1] \in ErrorPrefixes)
        /\ (~tool.arguments.isdict /\ tool.name \in KnownTools =>
                toolResult.content.text[1] \in ErrorPrefixes)
        /\ (tool.name \notin KnownTools =>
                /\ toolResult.content.text = <<"Unknown tool: ", tool.name>>
                /\ toolCalls = <<>>)

\* C10 as stated: no tool invocation raises; a backend HTTP status error
\* yields an "HTTP error ..." text, any other exception an "Error ..." text,
\* an unknown tool name "Unknown tool: <name>" without a backend call.
C10_Original ==
    /\ ToolNeverRaises
    /\ ToolStatusError => toolResult.content.text[1] = "HTTP error "

\* C10 amended: as stated, except that get_nko_by_id answers a backend 404
\* with the not-found text instead of an "HTTP error ..." text.
C10_ToolErrorsAreTexts ==
    /\ ToolNeverRaises
    /\ ToolStatusError =>
          IF tool.name = "get_nko_by_id" /\ toolCalls[1].outcome.status = 404
          THEN toolResult.content.text[1] = "NKO with ID "
          ELSE toolResult.content.text[1] = "HTTP error "

C10_Witness ==
    /\ ToolStatusError
    /\ tool.name = "get_cities"
    /\ toolCalls[1].outcome.status = 404
    /\ toolResult.content.text = <<"HTTP error ", "404", ": ", "detail">>

\* a Response was handed to the transport by query_nko
ResponseReturned == QueryCycle /\ pc = "done" /\ http.kind = "response"

CompositionRaised ==
    Len(completions) = 3 /\ completions[3].outcome.kind = "error"

\* C11 as stated: every Response carries the extracted city and the
\* extracted categories, whatever happened in the resolve and compose stages.
C11_Original ==
    ResponseReturned => (http.city = city /\ http.categories = categories)

\* C11 amended: a Response carries the extracted city and categories when the
\* composition call returned; when the composition call raised, it carries
\* city none and categories empty.
C11_ResponseCarriesFilters ==
    ResponseReturned =>
        IF CompositionRaised
        THEN http.city = PyNone /\ http.categories = PyList(<<>>)
        ELSE /\ http.city = city /\ http.categories = categories
             /\ result.city = city /\ result.categories = categories
             /\ city = extract_city_from_query(completions[1].outcome).val

C11_Witness ==
    /\ ResponseReturned
    /\ ~CompositionRaised
    /\ Len(calls) = 2 /\ calls[2].tier = 2 /\ Truthy(nko_list)
    /\ http.city = PyStr(<<"K">>)
    /\ http.categories = PyList(<< <<"a">> >>)

WhiteSpace == {" ", "\n", "\t"}

Without(s, chars) == SelectSeq(s, LAMBDA c : c \notin chars)

RECURSIVE Flatten(_)
Flatten(xs) == IF xs = <<>> THEN <<>> ELSE Head(xs) \o Flatten(Tail(xs))

\* the JSON text of an array of strings, without spaces: ["a","b"]
RECURSIVE JsonElements(_)
JsonElements(xs) ==
    IF xs = <<>> THEN <<>>
    ELSE <<"\"">> \o Head(xs) \o <<"\"">>
            \o (IF Len(xs) > 1 THEN <<",">> ELSE <<>>) \o JsonElements(Tail(xs))

JsonArrayText(xs) == <<"[">> \o JsonElements(xs) \o <<"]">>

\* the completion text of the categories call, when it returned a text
CategoriesExtractedFromText ==
    Len(completions) >= 2 /\ completions[2].outcome.kind = "text"

IsJsonArrayText(t) ==
    /\ Strip(t) # <<>>
    /\ Head(Strip(t)) = "["
    /\ JsonLoads(t).ok

\* C12: a completion text that is a valid JSON array of strings is extracted
\* as exactly that array; a text that is not valid JSON is extracted as its
\* comma-separated fragments, in order, trimmed, empty fragments discarded.
C12_CategoryParsing ==
    CategoriesExtractedFromText =>
        LET t == completions[2].outcome.text
        IN  /\ IsJsonArrayText(t) =>
                /\ categories.t = "list"
                /\ JsonArrayText(categories.v) = Without(t, WhiteSpace)
            /\ ~JsonLoads(t).ok =>
                /\ categories.t = "list"
                /\ \A i \in 1..Len(categories.v) :
                      /\ categories.v[i] # <<>>
                      /\ "," \notin {categories.v[i][j] : j \in 1..Len(categories.v[i])}
                      /\ ~IsSpace(categories.v[i][1])
                      /\ ~IsSpace(categories.v[i][Len(categories.v[i])])
                /\ Without(Flatten(categories.v), WhiteSpace)
                       = Without(t, WhiteSpace \cup {","})
                /\ Len(categories.v)
                       = Cardinality({i \in 1..Len(Split(t, ",")) :
                                         Without(Split(t, ",")[i], WhiteSpace) # <<>>})
            /\ (t = <<"a", ",", " ", "b", " ", "c">> =>
                    categories = PyList(<< <<"a">>, <<"b", " ", "c">> >>))
            /\ (t = <<"[", "\"", "a", "\"", ",", " ", "\"", "b", "\"", "]", "\n">> =>
                    categories = PyList(<< <<"a">>, <<"b">> >>))

C12_Witness ==
    /\ CategoriesExtractedFromText
    /\ completions[2].outcome.text = <<"a", ",", ",", " ">>
    /\ categories = PyList(<< <<"a">> >>)
    /\ pc = "done"

CityExtractedFromText ==
    Len(completions) >= 1 /\ completions[1].outcome.kind = "text"

NullTexts == {<<"n", "u", "l", "l">>, <<" ", "N", "U", "L", "L", "\n">>}

\* the city, once extracted, is the city filter of tier 1 and of tier 2
CityIsTheFilter ==
    (Truthy(city) /\ calls # <<>>) =>
        /\ <<"city", city>> \in calls[1].params
        /\ \A i \in 1..Len(calls) :
              calls[i].tier = 2 => calls[i].params = {<<"city", city>>}

\* C13 as stated: "null" in any letter case (after trimming) gives no city;
\* every other non-empty text is returned verbatim and used as the city filter.
C13_Original ==
    CityExtractedFromText =>
        LET t == completions[1].outcome.text
        IN  /\ (t \in NullTexts => city = PyNone)
            /\ (t \notin NullTexts /\ t # <<>> => city = PyStr(t))
            /\ CityIsTheFilter

\* C13 amended: "null" in any letter case (after trimming) gives no city;
\* every other text is returned trimmed of its surrounding whitespace and,
\* when non-empty, is used as the city filter of tier 1 and tier 2.
C13_CityNormalisation ==
    CityExtractedFromText =>
        LET t == completions[1].outcome.text
        IN  /\ (t \in NullTexts => city = PyNone)
            /\ (t \notin NullTexts =>
                    /\ city.t = "str"
                    /\ Without(city.v[1], WhiteSpace) = Without(t, WhiteSpace)
                    /\ (city.v[1] # <<>> =>
                            /\ ~IsSpace(city.v[1][1])
                            /\ ~IsSpace(city.v[1][Len(city.v[1])]))
                    /\ \E k \in 0..Len(t) :
                          city.v[1] = SubSeq(t, k + 1, k + Len(city.v[1])))
            /\ CityIsTheFilter

C13_Witness ==
    /\ CityExtractedFromText
    /\ completions[1].outcome.text = <<" ", "M", "k", " ">>
    /\ city = PyStr(<<"M", "k">>)
    /\ Len(calls) >= 2
    /\ calls[2].tier = 2
    /\ calls[2].params = {<<"city", PyStr(<<"M", "k">>)>>}

CycleInProgress == QueryCycle /\ pc # "done"

CycleReturned == QueryCycle /\ pc = "done" /\ result.set

\* C14: if every external call eventually returns or fails, every accepted
\* query eventually reaches the returned state with a response, after at most
\* 6 external calls (3 completions, 3 backend calls: the cascade does not loop).
C14_CycleTerminates ==
    /\ [](Len(completions) + Len(calls) <= 6)
    /\ (CycleInProgress ~> CycleReturned)

C14_Witness ==
    /\ CycleReturned
    /\ Len(completions) = 3
    /\ Len(calls) = 3
    /\ \A i \in 1..3 : calls[i].outcome.kind # "ok"

\* the orchestrator state a position belongs to: 1 received, 2 extracted,
\* 3 resolved, 5 returned (4, composed, lies inside the step from 3 to 5)
Stage(p) ==
    CASE p = "idle" -> 0
      [] p \in {"extract_city", "extract_categories"} -> 1
      [] p \in {"tier1", "tier2", "tier3"} -> 2
      [] p = "compose" -> 3
      [] OTHER -> 5

ComposerInvoked ==
    /\ context.built
    /\ Len(completions) = 3
    /\ completions[3].purpose = "compose"

\* C15: an accepted cycle passes received, extracted, resolved, composed,
\* returned in this order: no state is re-entered, none is skipped, and the
\* composer has been invoked in every cycle that returns.
C15_StageOrder ==
    [][(QueryCycle' /\ ~KeyMissing(OPENROUTER_API_KEY)) =>
          /\ Stage(pc') >= Stage(pc)
          /\ \/ Stage(pc') <= Stage(pc) + 1
             \/ pc = "compose" /\ pc' = "done" /\ ComposerInvoked'
          /\ (Stage(pc') = 2 => Len(completions') = 2)
          /\ (Stage(pc') = 3 => calls' # <<>>)]_vars

C15_Witness ==
    /\ CycleReturned
    /\ ComposerInvoked
    /\ completions[1].outcome.kind = "error"
    /\ completions[2].outcome.kind = "no_content"
    /\ \A i \in 1..Len(calls) : calls[i].outcome.kind = "connect_error"

LastCall == calls[Len(calls)]

\* C16: the cascade calls its candidates one after another in the order full,
\* city-only, unfiltered, each at most once; a later candidate only after the
\* previous one came back empty or failed; no call after a non-empty result;
\* at most 3 backend calls per cycle.
C16_CascadeOrder ==
    /\ Len(calls) <= 3
    /\ calls # <<>> => calls[1].tier = 1
    /\ \A i \in 1..Len(calls) : \A j \in 1..Len(calls) :
          i < j => calls[i].tier < calls[j].tier
    /\ \A i \in 1..Len(calls) :
          /\ calls[i].tier \in {1, 2, 3}
          /\ (calls[i].tier = 2 => calls[i].params = CityParams(city))
          /\ (calls[i].tier = 3 => calls[i].params = {})
          /\ (i < Len(calls) => ~Truthy(calls[i].returned.val))
    /\ (QueryCycle /\ pc \in {"tier2", "tier3"}) =>
          calls # <<>> /\ ~Truthy(LastCall.returned.val)
    /\ (QueryCycle /\ pc \in {"compose", "done"} /\ calls # <<>>) =>
          (Truthy(LastCall.returned.val) \/ LastCall.tier = 3)

C16_Witness ==
    /\ Len(calls) = 3
    /\ calls[1].tier = 1 /\ calls[2].tier = 2 /\ calls[3].tier = 3
    /\ calls[2].outcome.kind = "ok"
    /\ Truthy(calls[3].returned.val)
    /\ pc = "done"

CityOnlyAttempted == \E i \in 1..Len(calls) : calls[i].tier = 2

\* C17: the city-only tier is attempted if and only if tier 1 came back empty
\* and a city was extracted; without a city an empty tier 1 leads straight to
\* the unfiltered tier, also when categories is non-empty.
C17_CityOnlyTier ==
    /\ (CityOnlyAttempted \/ (QueryCycle /\ pc = "tier2")) =>
          /\ Truthy(city)
          /\ ~Truthy(calls[1].returned.val)
    /\ CascadeOver =>
          /\ (Truthy(city) /\ ~Truthy(calls[1].returned.val)) => CityOnlyAttempted
          /\ (~Truthy(city) /\ ~Truthy(calls[1].returned.val)) =>
                /\ Len(calls) = 2
                /\ calls[2].tier = 3
                /\ calls[2].params = {}
    /\ ~Truthy(city) =>
          \A i \in 1..Len(calls) : \A p \in calls[i].params : p[1] # "city"

C17_Witness ==
    /\ CascadeOver
    /\ ~Truthy(city)
    /\ Truthy(categories)
    /\ <<"category", categories>> \in calls[1].params
    /\ Len(calls) = 2
    /\ calls[2].tier = 3

Purposes == <<"city", "categories", "compose">>

\* C18: in a cycle the completion provider is called once for the city, once
\* for the categories and at most once for the composition; a failed
\* completion call is not repeated; only the backend search is repeated.
C18_NoCompletionRetries ==
    /\ Len(completions) <= 3
    /\ \A i \in 1..Len(completions) : completions[i].purpose = Purposes[i]
    /\ (QueryCycle /\ ~KeyMissing(OPENROUTER_API_KEY) /\ Stage(pc) >= 2) =>
          Len(completions) >= 2
    /\ (QueryCycle /\ pc \in {"tier1", "tier2", "tier3", "compose"}) =>
          Len(completions) = 2

C18_Witness ==
    /\ CycleReturned
    /\ Len(completions) = 3
    /\ \A i \in 1..3 : completions[i].outcome.kind = "error"
    /\ Len(calls) = 2

\* ================================================== concurrent cycles ===
\* Several POST /query requests served by one event loop.  A coroutine runs
\* until it awaits; `await http_client.get` (get_nko_list) suspends it and
\* frees the loop, while client.chat.completions.create is a synchronous
\* call of the OpenAI client made on the loop's thread: the loop is held
\* until the call returns.
seqVars == <<pc, queryVars, toolVars>>

\* external answers offered to the concurrent cycles
ConcCityOutcomes ==
    {o \in CityOutcomes : o.kind = "error" \/ o.text = <<"K">>}
ConcCategoriesOutcomes ==
    {o \in CategoriesOutcomes : o.text = <<"[", "\"", "a", "\"", "]">>}
ConcNkoListOutcomes ==
    {o \in NkoListOutcomes :
        o.kind = "connect_error"
            \/ (o.kind = "ok" /\ o.body \in {PyList(<<>>), PyList(Ascending(1))})}
ConcComposeOutcomes == ComposeOutcomes \ {CompletionOutcome("no_content", <<>>, "AttributeError")}

StoreShared(cs, c, cy) ==
    [d \in DOMAIN cs |->
        IF d = c THEN cy
        ELSE [cs[d] EXCEPT !.city = cy.city, !.categories = cy.categories]]

\* the locals of process_user_query live in the frame of their own call
Store(cs, c, cy) == [cs EXCEPT ![c] = cy]

\* the frame leaves process_user_query through the except branch
FrameFail(cy, err) == [cy EXCEPT !.result = Apology(err), !.pc = "done"]

\* the frame after the city completion returned or raised
FrameAfterCity(cy, outcome) ==
    LET r == extract_city_from_query(outcome)
        called == [cy EXCEPT !.completions = Append(@, Completion("city", outcome))]
    IN  IF r.raised THEN FrameFail(called, r.err)
        ELSE [called EXCEPT !.city = r.val, !.pc = "extract_categories"]

\* the frame after the categories completion returned or raised
FrameAfterCategories(cy, outcome) ==
    LET r == extract_categories_from_query(outcome)
        called == [cy EXCEPT !.completions = Append(@, Completion("categories", outcome))]
    IN  IF r.raised THEN FrameFail(called, r.err)
        ELSE [called EXCEPT !.categories = r.val, !.pc = "tier1"]

FrameTier(cy) == CASE cy.pc = "tier1" -> 1 [] cy.pc = "tier2" -> 2 [] OTHER -> 3

FrameParams(cy) ==
    CASE cy.pc = "tier1" -> FullParams(cy.jwt_token, cy.city, cy.categories)
      [] cy.pc = "tier2" -> CityParams(cy.city)
      [] OTHER -> NoParams

\* the frame after the awaited get_nko_list of its current candidate
FrameAfterCandidate(cy, outcome) ==
    LET r == get_nko_list(outcome)
        called == [cy EXCEPT !.calls =
                      Append(@, Call(FrameTier(cy), FrameParams(cy), outcome, r))]
    IN  IF r.raised THEN FrameFail(called, r.err)
        ELSE [called EXCEPT
                !.nko_list = r.val,
                !.pc = CASE cy.pc = "tier1" -> AfterTier1(r.val, cy.city)
                         [] cy.pc = "tier2" -> AfterTier2(r.val)
                         [] OTHER -> "compose"]

\* the frame after the context was built and the composition call returned
FrameAfterCompose(cy, outcome) ==
    LET b == BuildContext(cy.query, cy.city, cy.categories, cy.nko_list)
    IN  IF b.raised THEN FrameFail(cy, b.err)
        ELSE [cy EXCEPT
                !.context = b.ctx,
                !.completions = Append(@, Completion("compose", outcome)),
                !.result = ComposeResult(outcome, cy.city, cy.categories),
                !.pc = "done"]

\* positions at which the frame is inside a synchronous completion call
BlockingPositions == {"extract_city", "extract_categories", "compose"}

\* who holds the loop once frame cy has run to its next call
HolderAfter(c, cy) == IF cy.pc \in BlockingPositions THEN c ELSE 0

\* query_nko for request c, run up to the first completion call
ConcAccept(c, q, tok) ==
    /\ blocked = 0
    /\ cycles[c].pc = "idle"
    /\ LET cy == [cycles[c] EXCEPT
                    !.query = q, !.jwt_token = tok,
                    !.pc = IF KeyMissing(OPENROUTER_API_KEY) THEN "done"
                           ELSE "extract_city"]
       IN  /\ cycles' = Store(cycles, c, cy)
           /\ blocked' = HolderAfter(c, cy)
    /\ UNCHANGED <<OPENROUTER_API_KEY, seqVars, backendVars>>

\* the synchronous city call of c returns; c goes on without yielding
ConcExtractCity(c, outcome) ==
    /\ blocked = c
    /\ cycles[c].pc = "extract_city"
    /\ LET cy == FrameAfterCity(cycles[c], outcome)
       IN  /\ cycles' = Store(cycles, c, cy)
           /\ blocked' = HolderAfter(c, cy)
    /\ UNCHANGED <<OPENROUTER_API_KEY, seqVars, backendVars>>

\* the synchronous categories call of c returns; c runs to `await get_nko_list`
ConcExtractCategories(c, outcome) ==
    /\ blocked = c
    /\ cycles[c].pc = "extract_categories"
    /\ LET cy == FrameAfterCategories(cycles[c], outcome)
       IN  /\ cycles' = Store(cycles, c, cy)
           /\ blocked' = HolderAfter(c, cy)
    /\ UNCHANGED <<OPENROUTER_API_KEY, seqVars, backendVars>>

\* the awaited backend call of c completes and the free loop resumes c,
\* which runs to its next await or into the composition call
ConcCandidate(c, outcome) ==
    /\ blocked = 0
    /\ cycles[c].pc \in {"tier1", "tier2", "tier3"}
    /\ LET cy == FrameAfterCandidate(cycles[c], outcome)
       IN  /\ cycles' = Store(cycles, c, cy)
           /\ blocked' = HolderAfter(c, cy)
    /\ UNCHANGED <<OPENROUTER_API_KEY, seqVars, backendVars>>

\* the synchronous composition call of c returns and c returns its dict
ConcCompose(c, outcome) ==
    /\ blocked = c
    /\ cycles[c].pc = "compose"
    /\ LET cy == FrameAfterCompose(cycles[c], outcome)
       IN  /\ cycles' = Store(cycles, c, cy)
           /\ blocked' = HolderAfter(c, cy)
    /\ UNCHANGED <<OPENROUTER_API_KEY, seqVars, backendVars>>

\* any step of cycle c
ConcStep(c) ==
    \/ \E q \in Queries, tok \in {PyStr(<<"jwt">>)} : ConcAccept(c, q, tok)
    \/ \E o \in ConcCityOutcomes : ConcExtractCity(c, o)
    \/ \E o \in ConcCategoriesOutcomes : ConcExtractCategories(c, o)
    \/ \E o \in ConcNkoListOutcomes : ConcCandidate(c, o)
    \/ \E o \in ConcComposeOutcomes : ConcCompose(c, o)

ConcNext ==
    \/ \E c \in Cycles, q \in Queries, tok \in {PyStr(<<"jwt">>)} : ConcAccept(c, q, tok)
    \/ \E c \in Cycles, o \in ConcCityOutcomes : ConcExtractCity(c, o)
    \/ \E c \in Cycles, o \in ConcCategoriesOutcomes : ConcExtractCategories(c, o)
    \/ \E c \in Cycles, o \in ConcNkoListOutcomes : ConcCandidate(c, o)
    \/ \E c \in Cycles, o \in ConcComposeOutcomes : ConcCompose(c, o)

ConcInit == Init /\ ~KeyMissing(OPENROUTER_API_KEY)

ConcSpec == ConcInit /\ [][ConcNext]_vars

AloneResultCity(cy) == extract_city_from_query(cy.completions[1].outcome).val

AloneResultCategories(cy) == extract_categories_from_query(cy.completions[2].outcome).val

\* what the cycle of frame cy returns when run alone against the external
\* answers cy received
AloneResult(cy) ==
    LET c0 == extract_city_from_query(cy.completions[1].outcome).val
        k0 == extract_categories_from_query(cy.completions[2].outcome).val
    IN  ComposeResult(cy.completions[3].outcome, c0, k0)

\* the record set the sequential cascade hands on for the answers cy received
AloneRecords(cy) ==
    LET r(i) == get_nko_list(cy.calls[i].outcome).val
    IN  r(Len(cy.calls))

\* C19: cycles interleaved on one event loop touch only their own frame, and
\* each returns the response it would return run alone against the same
\* external answers.
C19_CyclesIsolated ==
    /\ [](\A c \in Cycles :
            (cycles[c].pc = "done" /\ cycles[c].result.set) =>
                /\ Len(cycles[c].completions) = 3
                /\ cycles[c].result = AloneResult(cycles[c])
                /\ cycles[c].nko_list = AloneRecords(cycles[c])
                /\ cycles[c].context.nko_count = Len(AloneRecords(cycles[c]).v)
                /\ cycles[c].calls[1].params
                      = FullParams(cycles[c].jwt_token,
                                   AloneResultCity(cycles[c]), AloneResultCategories(cycles[c])))
    /\ [][\A c \in Cycles : \A d \in Cycles :
            (cycles'[c] # cycles[c] /\ d # c) => cycles'[d] = cycles[d]]_vars

\* two cycles interleaved at their awaits, with different answers and results
C19_Witness ==
    /\ cycles[1].pc = "done" /\ cycles[2].pc = "done"
    /\ cycles[1].result.city = PyStr(<<"K">>)
    /\ cycles[2].result.city = PyNone
    /\ cycles[2].completions[3].outcome.kind = "text"
    /\ Len(cycles[1].calls) = 3
    /\ Len(cycles[2].calls) = 1

\* C20 as stated: a cycle yields at its extraction and composition calls too,
\* so while it waits on one of them another unfinished cycle can take a step.
C20_OthersProgressDuringCompletion ==
    \A c \in Cycles : \A d \in Cycles :
        (c # d /\ cycles[c].pc \in BlockingPositions /\ cycles[d].pc # "done")
            => ENABLED ConcStep(d)

\* ------------------------------------------------- get_nko_by_id input ---
ByIdCall == toolResult.returned /\ tool.name = "get_nko_by_id" /\ tool.arguments.isdict

CarriesIntegerId == Get(tool.arguments, "nko_id", PyNone).t = "int"

RequiredText == <<"Error: nko_id is required">>

\* C21: a get_nko_by_id call whose arguments carry an integer nko_id queries
\* the backend for exactly that id and answers with the record, the not-found
\* text or an error text; "Error: nko_id is required" without a backend call
\* is the answer only when the arguments carry no identifier.
C21_IntegerIdIsQueried ==
    ByIdCall =>
        LET nko_id == Get(tool.arguments, "nko_id", PyNone)
        IN  /\ CarriesIntegerId =>
                /\ Len(toolCalls) = 1
                /\ toolCalls[1].path = <<"/nko/">> \o nko_id.v[1]
                /\ toolResult.content # Text(RequiredText)
                /\ CASE toolCalls[1].outcome.kind = "ok" ->
                            toolResult.content = JsonText(toolCalls[1].outcome.body)
                      [] toolCalls[1].outcome.kind = "status_error"
                            /\ toolCalls[1].outcome.status = 404 ->
                            toolResult.content = Text(NotFoundText(nko_id.v[1]))
                      [] OTHER -> toolResult.content.kind = "text"
            /\ (toolResult.content = Text(RequiredText)) =>
                    (nko_id.t = "None" /\ toolCalls = <<>>)

\* ------------------------------------------- auth token in the cascade ---
TokenSupplied == QueryCycle /\ Truthy(jwt_token)

SentWithToken(call) == <<"jwt_token", jwt_token>> \in call.params

\* C22: when a jwt_token comes with the query, the tier-1 call carries it and
\* so does every later candidate call (city-only, unfiltered) of the cycle.
C22_TokenOnEveryCall ==
    TokenSupplied =>
        \A i \in 1..Len(calls) : SentWithToken(calls[i])

\* ================================================ backend: news.py ===
UserIds == {1, 2}

\* ids a caller may name: those of the rows, and one that no row has
NewsIds == 1..(MaxNews + 1)

\* db.commit(): the transaction is committed, or the database refuses it
CommitOutcomes == {"ok", "error"}

\* one row of the favourites table, as a bag
Row(user_id, news_id) == SetToBag({<<user_id, news_id>>})

\* db.query(FavoriteNewsInDB).filter(user_id == ..., news_id == ...).first()
FirstFavorite(rows, user_id, news_id) == BagIn(<<user_id, news_id>>, rows)

\* what a news.py function leaves behind: the table, and whether it raised
Stored(rows) == [raised |-> FALSE, err |-> "", rows |-> rows]
Refused(err, rows) == [raised |-> TRUE, err |-> err, rows |-> rows]

add_news_to_favorites_unchecked(rows, ids, user_id, news_id, commit) ==
    IF news_id \notin ids THEN Refused("ValueError", rows)
    ELSE IF commit = "error" THEN Refused("SQLAlchemyError", rows)
    ELSE Stored(rows (+) Row(user_id, news_id))

\* news.py add_news_to_favorites(user_id, news_id, db)
add_news_to_favorites(rows, ids, user_id, news_id, commit) ==
    IF news_id \notin ids THEN Refused("ValueError", rows)
    ELSE IF FirstFavorite(rows, user_id, news_id) THEN Refused("ValueError", rows)
    ELSE IF commit = "error" THEN Refused("SQLAlchemyError", rows)
    ELSE Stored(rows (+) Row(user_id, news_id))

\* news.py remove_news_from_favorites(user_id, news_id, db)
remove_news_from_favorites(rows, user_id, news_id, commit) ==
    IF ~FirstFavorite(rows, user_id, news_id) THEN Refused("ValueError", rows)
    ELSE IF commit = "error" THEN Refused("SQLAlchemyError", rows)
    ELSE Stored(rows (-) Row(user_id, news_id))

NewsCall(op, user_id, news_id, r) ==
    [op |-> op, user_id |-> user_id, news_id |-> news_id, raised |-> r.raised,
     before |-> favorite_news]

\* news.py create_news: a new NewsInDB row with the next id, created_by = 1
CreateNews(commit) ==
    /\ Cardinality(news) < MaxNews
    /\ LET id == Cardinality(news) + 1
           r == IF commit = "error" THEN Refused("SQLAlchemyError", favorite_news)
                ELSE Stored(favorite_news)
       IN  /\ news' = IF r.raised THEN news ELSE news \cup {id}
           /\ last' = NewsCall("create", 1, id, r)
    /\ UNCHANGED <<favorite_news, OPENROUTER_API_KEY, seqVars, concVars>>

AddNewsToFavorites(user_id, news_id, commit) ==
    /\ LET r == add_news_to_favorites(favorite_news, news, user_id, news_id, commit)
       IN  /\ favorite_news' = r.rows
           /\ last' = NewsCall("add", user_id, news_id, r)
    /\ UNCHANGED <<news, OPENROUTER_API_KEY, seqVars, concVars>>

RemoveNewsFromFavorites(user_id, news_id, commit) ==
    /\ LET r == remove_news_from_favorites(favorite_news, user_id, news_id, commit)
       IN  /\ favorite_news' = r.rows
           /\ last' = NewsCall("remove", user_id, news_id, r)
    /\ UNCHANGED <<news, OPENROUTER_API_KEY, seqVars, concVars>>

NewsNext ==
    \/ \E k \in CommitOutcomes : CreateNews(k)
    \/ \E u \in UserIds, n \in NewsIds, k \in CommitOutcomes :
            AddNewsToFavorites(u, n, k)
    \/ \E u \in UserIds, n \in NewsIds, k \in CommitOutcomes :
            RemoveNewsFromFavorites(u, n, k)

NewsSpec == Init /\ [][NewsNext]_vars

\* ------------------------------------------------- news favourites ---
LastPair == <<last.user_id, last.news_id>>

StoredAtMostOnce ==
    \A u \in UserIds, n \in NewsIds : CopiesIn(<<u, n>>, favorite_news) <= 1

\* the last call was one of the three refused cases
RefusedCase ==
    \/ last.op = "add" /\ BagIn(LastPair, last.before)
    \/ last.op = "add" /\ last.news_id \notin news
    \/ last.op = "remove" /\ ~BagIn(LastPair, last.before)

\* a remove that succeeds on the pair the preceding call has just added
RemoveUndoesAdd ==
    (/\ last.op = "add" /\ ~last.raised
     /\ last'.op = "remove" /\ ~last'.raised
     /\ <<last'.user_id, last'.news_id>> = LastPair)
        => favorite_news' = last.before

\* C23: after any sequence of add_news_to_favorites and
\* remove_news_from_favorites calls every (user, news) pair is stored at most
\* once; adding a stored pair, adding a news id without a row, and removing a
\* pair that is not stored raise and leave the favourites as they were; a
\* successful add followed by a remove of that pair restores the favourites
\* from before the add.
C23_FavouritesConsistent ==
    /\ [](StoredAtMostOnce
            /\ (RefusedCase => (last.raised /\ favorite_news = last.before)))
    /\ [][RemoveUndoesAdd]_vars

C23_Witness ==
    /\ last.op = "remove"
    /\ ~last.raised
    /\ last.before = favorite_news (+) Row(last.user_id, last.news_id)
    /\ favorite_news = Row(2, 1)

====
